---- MODULE Spec2Model ----
(***************************************************************************)
(* plot_3D_network of network_viz.py as a state machine.  One call walks   *)
(* through: figure creation and argument defaulting, the node loop, the    *)
(* edge name resolution, the edge loop, the axis cleanup, the optional     *)
(* turntable frame export and the return.  Python exceptions end the call  *)
(* in pc = "failed" with the exception's name in err.                      *)
(*                                                                         *)
(* Conventions: sequences are 1-based here and 0-based in Python, so the   *)
(* loop counters ni, ei, ai hold the number of completed iterations, which *)
(* is also the Python index of the next one.  An optional argument is      *)
(* None (the empty tuple) or Some(v) (a one-element tuple).  Coordinates   *)
(* are in hundredths and opacities in tenths, so 0.05 is 5 and 1.0 is 10.  *)
(***************************************************************************)
EXTENDS Integers, Sequences, FiniteSets, TLC

VARIABLES
    args,            \* the caller's arguments, never changed by the call
    node_sizes, node_colors, node_alpha,    \* locals after defaulting
    edge_sizes, edge_colors, edge_alpha,
    fig,             \* the figure the call created, with the axis' artists
    camera,          \* the axis' view: <<elev, azim>>, or <<>> before view_init
    ni, ei, ai,      \* completed iterations of the node, edge and frame loops
    edge_inds,       \* resolved [i0, i1] pairs (1-based)
    edge_positions,  \* resolved end point pairs
    pc,              \* position in the function body
    err,             \* name of the exception that ended the call, or ""
    result,          \* the returned (fig, ax) pair, or <<>>
    files,           \* contents of the export directory: file name -> image
    written,         \* file names savefig wrote during the current call
    call,            \* ordinal of the current call (pyplot's figure count)
    snapshot         \* directory contents when the previous call returned

vars == <<args, node_sizes, node_colors, node_alpha, edge_sizes, edge_colors,
          edge_alpha, fig, camera, ni, ei, ai, edge_inds, edge_positions,
          pc, err, result, files, written, call, snapshot>>

locals == <<node_sizes, node_colors, node_alpha, edge_sizes, edge_colors,
            edge_alpha>>

-----------------------------------------------------------------------------
(* Bounds of the model *)

\* Largest number of scene elements (nodes plus edges) of a call.
MaxSize == 3

\* Number of successive calls with the same arguments.
MaxCalls == 2

\* Largest number of scene elements of a call whose attribute sequences are
\* not all of the exact length.
MaxArgSize == 2

\* Names nodes and edge end points are drawn from.
Names == {"A", "B"}

-----------------------------------------------------------------------------
(* Program constants *)

elev == 20
node_label_offset == 5
edge_label_offset == 5
DefaultNodeSize == 50
DefaultNodeAlpha == 10
DefaultEdgeSize == 1
DefaultEdgeAlpha == 10
AzimStart == -270
AzimStop == 90
AzimStep == 3

None == << >>
Some(v) == <<v>>
IsNone(o) == o = << >>

\* The save_fpath values a caller passes: omitted, the boolean False of the
\* script's first call, an existing writable directory, a missing directory.
PathNone == "None"
PathFalse == "False"
PathDir == "frames"
PathMissing == "missing"

-----------------------------------------------------------------------------
(* Pure helpers *)

\* [v] * n
Repeat(v, n) == [i \in 1..n |-> v]

MissingOffByOne(seq, i) == i >= Len(seq)

\* seq[i] raises IndexError: Python index i - 1 is not below len(seq)
Missing(seq, i) == i > Len(seq)

\* arg if it was supplied, [v] * n otherwise
DefaultTo(arg, v, n) == IF IsNone(arg) THEN Repeat(v, n) ELSE arg[1]

\* list.index: scan from the front, 1-based position of the first element
\* equal to n; 0 stands for the ValueError of a name that is absent.
RECURSIVE IndexFrom(_, _, _)
IndexFrom(names, n, i) ==
    IF i > Len(names) THEN 0
    ELSE IF names[i] = n THEN i
    ELSE IndexFrom(names, n, i + 1)

ListIndexLast(names, n) ==
    IF \E i \in 1..Len(names) : names[i] = n
    THEN CHOOSE i \in 1..Len(names) :
            names[i] = n /\ \A j \in (i+1)..Len(names) : names[j] # n
    ELSE 0

ListIndexOrFirst(names, n) ==
    IF IndexFrom(names, n, 1) = 0 /\ Len(names) > 0 THEN 1
    ELSE IndexFrom(names, n, 1)

ListIndex(names, n) == IndexFrom(names, n, 1)

\* np.arange(start, stop, step) for step > 0: start, start + step, ... < stop
RECURSIVE ArangeFrom(_, _, _)
ArangeFrom(v, stop, step) ==
    IF v >= stop THEN << >> ELSE <<v>> \o ArangeFrom(v + step, stop, step)

ArangeInclusive(start, stop, step) == ArangeFrom(start, stop + 1, step)

Arange(start, stop, step) == ArangeFrom(start, stop, step)

\* Decimal digits of n >= 0, most significant first
RECURSIVE Digits(_)
Digits(n) == IF n < 10 THEN <<n>> ELSE Digits(n \div 10) \o <<n % 10>>

\* '%0wi' % n: the digits, left-padded with zeros to at least w characters
RECURSIVE ZeroPad(_, _)
ZeroPad(ds, w) == IF Len(ds) >= w THEN ds ELSE ZeroPad(<<0>> \o ds, w)

FrameNameTwoDigits(i) == <<"mov_">> \o ZeroPad(Digits(i), 2) \o <<".png">>

\* 'mov_%03i.png' % ai
FrameName(i) == <<"mov_">> \o ZeroPad(Digits(i), 3) \o <<".png">>

\* np.mean(edge_pt, axis=0) and edge_pt[1, :] - edge_pt[0, :]
MeanPt(p, q) == [k \in 1..3 |-> (p[k] + q[k]) \div 2]
VecDir(p, q) == [k \in 1..3 |-> q[k] - p[k]]
Raised(p, dz) == <<p[1], p[2], p[3] + dz>>

\* What savefig puts into the file: the current figure seen from the camera.
RenderNumbered(f, cam) ==
    [elev |-> cam[1], azim |-> cam[2], number |-> f.number,
     artists |-> <<Len(f.markers), Len(f.lines), Len(f.texts)>>]

Render(f, cam) ==
    [elev |-> cam[1], azim |-> cam[2],
     artists |-> <<Len(f.markers), Len(f.lines), Len(f.texts)>>]

\* plt.figure() and fig.add_subplot: figure number k with an empty axis
NewFigure(k) == [number |-> k, markers |-> << >>, lines |-> << >>,
                 texts |-> << >>, chrome |-> FALSE]

-----------------------------------------------------------------------------
(* Arguments *)

\* node_positions: an N x 3 array; node i sits at (i-1, 0, 0)
Positions(n) == [i \in 1..n |-> <<100 * (i - 1), 0, 0>>]

\* The argument record of a call
MkArgs(nm, nl, ed, el, ns, nc, na, es, ec, ea, sp) ==
    [node_names |-> nm, node_positions |-> Positions(Len(nm)),
     node_label_set |-> nl, edges |-> ed, edge_label_set |-> el,
     node_sizes |-> ns, node_colors |-> nc, node_alpha |-> na,
     edge_sizes |-> es, edge_colors |-> ec, edge_alpha |-> ea,
     save_fpath |-> sp]

\* A fully specified call, as the script's first: every attribute sequence
\* supplied with the length of its name or edge sequence.
FullArgs(nm, nl, ed, el, sp) ==
    MkArgs(nm, nl, ed, el,
           Some(Repeat(20, Len(nm))), Some(Repeat("red", Len(nm))),
           Some(Repeat(5, Len(nm))), Some(Repeat(2, Len(ed))),
           Some(Repeat("white", Len(ed))), Some(Repeat(5, Len(ed))), sp)

N == Len(args.node_positions)
M == Len(args.edges)

\* State of the process before the body of a call runs
Entry(a, k, dir, snap) ==
    /\ args = a
    /\ node_sizes = a.node_sizes /\ node_colors = a.node_colors
    /\ node_alpha = a.node_alpha /\ edge_sizes = a.edge_sizes
    /\ edge_colors = a.edge_colors /\ edge_alpha = a.edge_alpha
    /\ fig = << >> /\ camera = << >>
    /\ ni = 0 /\ ei = 0 /\ ai = 0
    /\ edge_inds = << >> /\ edge_positions = << >>
    /\ pc = "start" /\ err = "" /\ result = << >>
    /\ files = dir /\ written = << >>
    /\ call = k /\ snapshot = snap

EmptyDir == << >>

Init ==
    \E n \in 0..MaxSize : \E m \in 0..(MaxSize - n) :
    \E nm \in [1..n -> Names], nl \in [1..n -> BOOLEAN],
       ed \in [1..m -> Names \X Names], el \in [1..m -> BOOLEAN],
       sp \in {PathNone, PathFalse, PathDir, PathMissing} :
        Entry(FullArgs(nm, nl, ed, el, sp), 1, EmptyDir, EmptyDir)

-----------------------------------------------------------------------------
(* The body of plot_3D_network *)

Raise(e) == /\ pc' = "failed" /\ err' = e

\* Lines 54-76: create the figure, default the omitted attribute sequences
DefaultArgs ==
    /\ pc = "start"
    /\ fig' = NewFigure(call)
    /\ node_sizes' = DefaultTo(args.node_sizes, DefaultNodeSize, Len(args.node_names))
    /\ node_colors' = DefaultTo(args.node_colors, "green", Len(args.node_names))
    /\ node_alpha' = DefaultTo(args.node_alpha, DefaultNodeAlpha, Len(args.node_names))
    /\ edge_sizes' = DefaultTo(args.edge_sizes, DefaultEdgeSize, Len(args.edges))
    /\ edge_colors' = DefaultTo(args.edge_colors, "blue", Len(args.edges))
    /\ edge_alpha' = DefaultTo(args.edge_alpha, DefaultEdgeAlpha, Len(args.edges))
    /\ pc' = "nodes"
    /\ UNCHANGED <<args, camera, ni, ei, ai, edge_inds, edge_positions, err,
                   result, files, written, call, snapshot>>

\* ax.scatter of node i
Marker(i) == [at |-> args.node_positions[i], s |-> node_sizes[i],
              c |-> node_colors[i], alpha |-> node_alpha[i]]

\* ax.text of node i
NodeText(i) == [at |-> Raised(args.node_positions[i], node_label_offset),
                s |-> <<args.node_names[i]>>, zdir |-> << >>,
                c |-> node_colors[i], alpha |-> node_alpha[i], of |-> "node"]

NodeLabelWantedAlways(i) == TRUE

\* Line 84: if node_label_set[ni]
NodeLabelWanted(i) == args.node_label_set[i]

\* Lines 80-87: one iteration of the node loop
NodeStep ==
    /\ pc = "nodes" /\ ni < N
    /\ LET i == ni + 1
           scattered == [fig EXCEPT !.markers = Append(@, Marker(i))]
       IN  IF Missing(node_sizes, i) \/ Missing(node_colors, i) \/ Missing(node_alpha, i)
           THEN Raise("IndexError") /\ UNCHANGED <<fig, ni>>
           ELSE IF Missing(args.node_label_set, i)
           THEN Raise("IndexError") /\ fig' = scattered /\ UNCHANGED ni
           ELSE IF ~NodeLabelWanted(i)
           THEN fig' = scattered /\ ni' = i /\ UNCHANGED <<pc, err>>
           ELSE IF Missing(args.node_names, i)
           THEN Raise("IndexError") /\ fig' = scattered /\ UNCHANGED ni
           ELSE /\ fig' = [scattered EXCEPT !.texts = Append(@, NodeText(i))]
                /\ ni' = i /\ UNCHANGED <<pc, err>>
    /\ UNCHANGED <<args, locals, camera, ei, ai, edge_inds, edge_positions,
                   result, files, written, call, snapshot>>

\* Lines 91-92: the index pairs of all edges
EdgeInds == [k \in 1..Len(args.edges) |->
                <<ListIndex(args.node_names, args.edges[k][1]),
                  ListIndex(args.node_names, args.edges[k][2])>>]

ResolveEdgesLazy ==
    /\ pc = "nodes" /\ ni = N
    /\ LET inds == EdgeInds
           ok == {k \in 0..Len(inds) :
                    \A j \in 1..k : inds[j][1] \in 1..N /\ inds[j][2] \in 1..N}
           last == CHOOSE k \in ok : \A j \in ok : j <= k
       IN  /\ edge_inds' = SubSeq(inds, 1, last)
           /\ edge_positions' = [k \in 1..last |->
                   <<args.node_positions[inds[k][1]],
                     args.node_positions[inds[k][2]]>>]
           /\ pc' = "edges" /\ UNCHANGED err
    /\ UNCHANGED <<args, locals, fig, camera, ni, ei, ai, result, files,
                   written, call, snapshot>>

\* Lines 91-96: resolve every edge's names to indices, then to positions
ResolveEdges ==
    /\ pc = "nodes" /\ ni = N
    /\ LET inds == EdgeInds
       IN  IF \E k \in 1..Len(inds) : inds[k][1] = 0 \/ inds[k][2] = 0
           THEN Raise("ValueError") /\ UNCHANGED <<edge_inds, edge_positions>>
           ELSE IF \E k \in 1..Len(inds) : inds[k][1] > N \/ inds[k][2] > N
           THEN Raise("IndexError") /\ edge_inds' = inds /\ UNCHANGED edge_positions
           ELSE /\ edge_inds' = inds
                /\ edge_positions' = [k \in 1..Len(inds) |->
                        <<args.node_positions[inds[k][1]],
                          args.node_positions[inds[k][2]]>>]
                /\ pc' = "edges" /\ UNCHANGED err
    /\ UNCHANGED <<args, locals, fig, camera, ni, ei, ai, result, files,
                   written, call, snapshot>>

\* ax.plot of edge k
Line(k) == [from |-> edge_positions[k][1], to |-> edge_positions[k][2],
            lw |-> edge_sizes[k], c |-> edge_colors[k], alpha |-> edge_alpha[k]]

\* ax.text of edge k
EdgeText(k) ==
    [at |-> Raised(MeanPt(edge_positions[k][1], edge_positions[k][2]),
                   edge_label_offset),
     s |-> <<args.node_names[edge_inds[k][1]], "<->",
             args.node_names[edge_inds[k][2]]>>,
     zdir |-> VecDir(edge_positions[k][1], edge_positions[k][2]),
     c |-> edge_colors[k], alpha |-> edge_alpha[k], of |-> "edge"]

\* Lines 100-113: one iteration of the edge loop
EdgeStep ==
    /\ pc = "edges" /\ ei < Len(edge_positions)
    /\ LET k == ei + 1
           plotted == [fig EXCEPT !.lines = Append(@, Line(k))]
       IN  IF Missing(edge_sizes, k) \/ Missing(edge_colors, k) \/ Missing(edge_alpha, k)
           THEN Raise("IndexError") /\ UNCHANGED <<fig, ei>>
           ELSE IF Missing(args.edge_label_set, k)
           THEN Raise("IndexError") /\ fig' = plotted /\ UNCHANGED ei
           ELSE /\ fig' = IF args.edge_label_set[k]
                          THEN [plotted EXCEPT !.texts = Append(@, EdgeText(k))]
                          ELSE plotted
                /\ ei' = k /\ UNCHANGED <<pc, err>>
    /\ UNCHANGED <<args, locals, camera, ni, ai, edge_inds, edge_positions,
                   result, files, written, call, snapshot>>

ExportAlways(p) == TRUE

\* Line 123: save_fpath is not None
ExportRequested(p) == p # PathNone

\* Lines 116-123: axis captions, axis off, title; then the export test
Cleanup ==
    /\ pc = "edges" /\ ei = Len(edge_positions)
    /\ fig' = [fig EXCEPT !.chrome = TRUE]
    /\ pc' = IF ExportRequested(args.save_fpath) THEN "export" ELSE "return"
    /\ UNCHANGED <<args, locals, camera, ni, ei, ai, edge_inds, edge_positions,
                   err, result, files, written, call, snapshot>>

\* Line 124: the azimuths of the frames
Angles == Arange(AzimStart, AzimStop, AzimStep)

\* What the body of the frame loop can end in: op.join needs a string; savefig
\* needs the directory to exist and the write to succeed.
SaveOutcomes(p) ==
    IF p \notin {PathDir, PathMissing} THEN {"AttributeError"}
    ELSE IF p = PathMissing THEN {"IOError"}
    ELSE {"saved", "IOError"}

SavedViewStale(before, after) == IF before = << >> THEN <<30, 0 - 60>> ELSE before

\* Lines 125-126: savefig runs after view_init, so the frame shows the view
\* view_init has just set, not the view the iteration started with
SavedView(before, after) == after

\* Lines 124-127: one iteration of the frame loop
ExportFrame ==
    /\ pc = "export" /\ ai < Len(Angles)
    /\ camera' = <<elev, Angles[ai + 1]>>
    /\ \E outcome \in SaveOutcomes(args.save_fpath) :
         IF outcome = "saved"
         THEN /\ files' = (FrameName(ai) :>
                              Render(fig, SavedView(camera, camera')))
                          @@ files
              /\ written' = Append(written, FrameName(ai))
              /\ ai' = ai + 1
              /\ UNCHANGED <<pc, err>>
         ELSE Raise(outcome) /\ UNCHANGED <<files, written, ai>>
    /\ UNCHANGED <<args, locals, fig, ni, ei, edge_inds, edge_positions,
                   result, call, snapshot>>

\* Line 129: return fig, ax
Return ==
    /\ (pc = "return" \/ (pc = "export" /\ ai = Len(Angles)))
    /\ pc' = "returned"
    /\ result' = <<fig.number, "ax">>
    /\ UNCHANGED <<args, locals, fig, camera, ni, ei, ai, edge_inds,
                   edge_positions, err, files, written, call, snapshot>>

\* The caller calls again with the same arguments and the same directory,
\* as lines 173-177 call twice in succession.
Rerun ==
    /\ pc = "returned" /\ call < MaxCalls
    /\ call' = call + 1
    /\ snapshot' = files
    /\ node_sizes' = args.node_sizes /\ node_colors' = args.node_colors
    /\ node_alpha' = args.node_alpha /\ edge_sizes' = args.edge_sizes
    /\ edge_colors' = args.edge_colors /\ edge_alpha' = args.edge_alpha
    /\ fig' = << >> /\ camera' = << >>
    /\ ni' = 0 /\ ei' = 0 /\ ai' = 0
    /\ edge_inds' = << >> /\ edge_positions' = << >>
    /\ pc' = "start" /\ err' = "" /\ result' = << >>
    /\ written' = << >>
    /\ UNCHANGED <<args, files>>

\* One call
Next == DefaultArgs \/ NodeStep \/ ResolveEdges \/ EdgeStep \/ Cleanup
        \/ ExportFrame \/ Return

Spec == Init /\ [][Next]_vars

\* Successive calls with the same arguments
NextRerun == Next \/ Rerun

SpecRerun == Init /\ [][NextRerun]_vars

-----------------------------------------------------------------------------
(* Calls whose attribute sequences are omitted, too short or too long *)

Variants == {"exact", "omitted", "shorter", "longer"}

\* An optional attribute sequence for n elements
AttrSeq(how, v, n) ==
    CASE how = "exact" -> Some(Repeat(v, n))
      [] how = "omitted" -> None
      [] how = "shorter" -> Some(Repeat(v, n - 1))
      [] how = "longer" -> Some(Repeat(v, n + 1))

\* A label set for the flags fl (label sets have no default)
LabelSeq(how, fl) ==
    CASE how = "exact" -> fl
      [] how = "shorter" -> SubSeq(fl, 1, Len(fl) - 1)
      [] how = "longer" -> Append(fl, TRUE)

AttrNames == {"node_label_set", "node_sizes", "node_colors", "node_alpha",
              "edge_label_set", "edge_sizes", "edge_colors", "edge_alpha"}

\* The variant of attribute a when attribute `which` is the one that deviates
\* ("all" stands for the script's second call, which omits all six)
VariantOf(a, which, how) ==
    IF which = "all" /\ a \notin {"node_label_set", "edge_label_set"}
    THEN "omitted"
    ELSE IF which = a THEN how ELSE "exact"

VariedArgs(nm, nl, ed, el, which, how) ==
    LET v(a) == VariantOf(a, which, how)
    IN  MkArgs(nm, LabelSeq(v("node_label_set"), nl),
               ed, LabelSeq(v("edge_label_set"), el),
               AttrSeq(v("node_sizes"), 20, Len(nm)),
               AttrSeq(v("node_colors"), "red", Len(nm)),
               AttrSeq(v("node_alpha"), 5, Len(nm)),
               AttrSeq(v("edge_sizes"), 2, Len(ed)),
               AttrSeq(v("edge_colors"), "white", Len(ed)),
               AttrSeq(v("edge_alpha"), 5, Len(ed)),
               PathNone)

\* how is possible for attribute `which` of a call with n nodes and m edges
Applicable(which, how, n, m) ==
    LET len == IF which \in {"node_label_set", "node_sizes", "node_colors",
                             "node_alpha"} THEN n ELSE m
    IN  /\ which = "all" => how = "omitted"
        /\ how = "shorter" => len > 0
        /\ how = "omitted" => which \notin {"node_label_set", "edge_label_set"}

InitArgs ==
    \E n \in 0..MaxArgSize : \E m \in 0..(MaxArgSize - n) :
    \E nm \in [1..n -> Names], nl \in [1..n -> BOOLEAN],
       ed \in [1..m -> Names \X Names], el \in [1..m -> BOOLEAN],
       which \in AttrNames \cup {"all"}, how \in Variants :
        /\ Applicable(which, how, n, m)
        /\ Entry(VariedArgs(nm, nl, ed, el, which, how), 1, EmptyDir, EmptyDir)

\* Without save_fpath the frame loop is never entered
NextArgs == DefaultArgs \/ NodeStep \/ ResolveEdges \/ EdgeStep \/ Cleanup
            \/ Return

SpecArgs == InitArgs /\ [][NextArgs]_vars

-----------------------------------------------------------------------------
(* Vocabulary of the properties *)

Terminal == pc \in {"returned", "failed"}
Drawing == pc # "start"

\* Number of true flags among those of the first n elements
CountTrue(flags, n) == Cardinality({i \in DOMAIN flags \cap 1..n : flags[i]})
TextsOf(kind) == SelectSeq(fig.texts, LAMBDA t : t.of = kind)

\* Some edge end point is no element of node_names
HasAbsentName ==
    \E k \in 1..M : \E j \in 1..2 :
        \A i \in 1..Len(args.node_names) : args.node_names[i] # args.edges[k][j]

\* Smallest position of name n in node_names
FirstOccurrence(n) ==
    CHOOSE i \in 1..Len(args.node_names) :
        /\ args.node_names[i] = n
        /\ \A j \in 1..(i - 1) : args.node_names[j] # n

\* The sequences the loops index, with the arguments' defaults applied
NodeSeqs == <<args.node_label_set,
              DefaultTo(args.node_sizes, 0, N), DefaultTo(args.node_colors, 0, N),
              DefaultTo(args.node_alpha, 0, N)>>
EdgeSeqs == <<args.edge_label_set,
              DefaultTo(args.edge_sizes, 0, M), DefaultTo(args.edge_colors, 0, M),
              DefaultTo(args.edge_alpha, 0, M)>>
NodeShort == \E q \in 1..4 : Len(NodeSeqs[q]) < N
EdgeShort == \E q \in 1..4 : Len(EdgeSeqs[q]) < M
LengthMismatch == \/ \E q \in 1..4 : Len(NodeSeqs[q]) # N
                  \/ \E q \in 1..4 : Len(EdgeSeqs[q]) # M
ExactLengths == ~LengthMismatch

\* mov_000.png ... mov_119.png, digit by digit
MovName(i) == <<"mov_", i \div 100, (i \div 10) % 10, i % 10, ".png">>

-----------------------------------------------------------------------------
(* C1 *)

\* C1: a call that returns, given N names and positions, M edges whose names
\* all occur in node_names and attribute sequences of exactly N and M
\* entries, has placed N markers, M line segments, one node label per true
\* entry of node_label_set and one edge label per true entry of
\* edge_label_set.
C1_ArtistCounts ==
    (pc = "returned" /\ ExactLengths /\ ~HasAbsentName /\ Len(args.node_names) = N)
    => /\ Len(fig.markers) = N
       /\ Len(fig.lines) = M
       /\ Len(TextsOf("node")) = CountTrue(args.node_label_set, N)
       /\ Len(TextsOf("edge")) = CountTrue(args.edge_label_set, M)

C1_Witness ==
    /\ pc = "returned"
    /\ args.node_label_set = <<TRUE, FALSE>>
    /\ args.edge_label_set = <<TRUE>>
    /\ Len(fig.markers) = 2 /\ Len(fig.lines) = 1 /\ Len(fig.texts) = 2

(* C2 *)

\* C2: on return from a call whose save_fpath is an existing, writable, empty
\* directory, the directory holds exactly the 120 files mov_000.png ..
\* mov_119.png.
C2_FrameFiles ==
    (pc = "returned" /\ args.save_fpath = PathDir)
    => /\ DOMAIN files = {MovName(i) : i \in 0..119}
       /\ Cardinality(DOMAIN files) = 120

C2_Witness ==
    /\ pc = "returned" /\ args.save_fpath = PathDir /\ call = 1
    /\ N = 2 /\ M = 1
    /\ <<"mov_", 1, 1, 9, ".png">> \in DOMAIN files

(* C3 *)

\* C3: with save_fpath omitted no state of the call, returning or failing, has
\* written a file, and the frame loop is not entered (no view is set).
C3_NoWritesWithoutPath ==
    args.save_fpath = PathNone
    => /\ files = EmptyDir /\ written = << >>
       /\ pc # "export" /\ camera = << >>

C3_Witness ==
    /\ args.save_fpath = PathNone /\ pc = "returned" /\ M >= 1 /\ N >= 1

(* C4 *)

\* C4: when an edge, at any position, references a name absent from
\* node_names, the call never gets past the name resolution: it never draws
\* an edge, never enters the frame loop, never returns, writes no file even
\* with save_fpath a valid directory, and the error that ends it is the
\* lookup error (ValueError of list.index) whenever the per-node sequences
\* cover every node, so that the node loop completes.
C4_AbsentNameFails ==
    HasAbsentName
    => /\ pc \in {"start", "nodes", "failed"}
       /\ files = EmptyDir /\ written = << >> /\ result = << >>
       /\ (pc = "failed" /\ ~NodeShort /\ Len(args.node_names) = N)
            => err = "ValueError"

C4_Witness ==
    /\ pc = "failed" /\ err = "ValueError" /\ args.save_fpath = PathDir
    /\ M = 2 /\ N = 1
    /\ args.edges[1] = <<args.node_names[1], args.node_names[1]>>
    /\ args.edges[2][2] # args.node_names[1]
    /\ files = EmptyDir

(* C5 *)

\* C5 as stated, for calls whose edge names all resolve: whenever a supplied
\* per-node or per-edge attribute sequence differs in length from its name or
\* edge sequence, shorter or longer, the call fails with the length-mismatch
\* (index) error.
C5_AnyMismatchFails ==
    (Terminal /\ LengthMismatch /\ ~HasAbsentName)
    => (pc = "failed" /\ err = "IndexError")

\* C5 amended: the call fails with an index error when a per-node sequence is
\* shorter than the number of nodes, or, every edge name resolving, a per-edge
\* sequence is shorter than the number of edges (an absent edge name fails
\* first, with the lookup error); sequences that are longer than needed are
\* accepted and the call returns.
C5_ShortFailsLongAccepted ==
    Terminal
    => /\ NodeShort => (pc = "failed" /\ err = "IndexError")
       /\ (~NodeShort /\ HasAbsentName) => (pc = "failed" /\ err = "ValueError")
       /\ (~NodeShort /\ ~HasAbsentName /\ EdgeShort)
            => (pc = "failed" /\ err = "IndexError")
       /\ (~NodeShort /\ ~HasAbsentName /\ ~EdgeShort)
            => (pc = "returned" /\ err = "" /\ Len(fig.markers) = N
                /\ Len(fig.lines) = M)

C5_Witness ==
    /\ pc = "returned" /\ M = 1 /\ N = 1
    /\ ~IsNone(args.edge_alpha) /\ Len(args.edge_alpha[1]) = 2

(* C6 *)

\* C6: a call with save_fpath = False writes no frame file and returns the
\* figure/axis pair, as a call with save_fpath = None does.
C6_FalseMeansNoExport ==
    (Terminal /\ args.save_fpath = PathFalse /\ ~HasAbsentName)
    => (pc = "returned" /\ result # << >> /\ written = << >>)

(* C7 *)

RECURSIVE ExpectedEdgeTexts(_)
ExpectedEdgeTexts(k) ==
    IF k = 0 THEN << >>
    ELSE ExpectedEdgeTexts(k - 1) \o
         ( IF args.edge_label_set[k]
           THEN LET i == FirstOccurrence(args.edges[k][1])
                    j == FirstOccurrence(args.edges[k][2])
                IN  << <<args.node_names[i], "<->", args.node_names[j],
                         MeanPt(args.node_positions[i], args.node_positions[j])>> >>
           ELSE << >> )

\* C7: every drawn segment runs from the position at the first occurrence of
\* the edge's first name to the position at the first occurrence of its
\* second name, and the edge labels are built from the names at those
\* indices and placed at the midpoint of those positions.
C7_FirstOccurrence ==
    Drawing
    => /\ \A k \in 1..Len(fig.lines) :
            /\ fig.lines[k].from =
                 args.node_positions[FirstOccurrence(args.edges[k][1])]
            /\ fig.lines[k].to =
                 args.node_positions[FirstOccurrence(args.edges[k][2])]
       /\ [t \in 1..Len(TextsOf("edge")) |->
             LET x == TextsOf("edge")[t]
             IN  <<x.s[1], x.s[2], x.s[3],
                   <<x.at[1], x.at[2], x.at[3] - edge_label_offset>> >>]
          = ExpectedEdgeTexts(ei)

C7_Witness ==
    /\ args.node_names = <<"A", "A">>
    /\ args.edges = << <<"A", "A">> >>
    /\ args.edge_label_set = <<TRUE>>
    /\ pc = "returned"
    /\ Len(fig.lines) = 1 /\ Len(TextsOf("edge")) = 1
    /\ fig.lines[1].to = args.node_positions[1]

(* C8 *)

\* C8: from the start of a second call with the same arguments and directory
\* on, the directory holds what it held when the first call returned: the
\* same file names, each with the frame of the same index and camera angle.
C8_RerunSameFiles ==
    call > 1 => files = snapshot

C8_Witness ==
    /\ call = 2 /\ pc = "returned" /\ args.save_fpath = PathDir
    /\ Len(written) = 120 /\ Cardinality(DOMAIN files) = 120
    /\ N >= 1

(* C9 *)

\* C9: the frames written by a call are mov_000 .. mov_(k-1) in that order,
\* frame i holding the view of elevation 20 and azimuth -270 + 3 i of the
\* complete scene; azimuth never exceeds 87; no frame is written before all
\* nodes and edges are drawn; a save failure at frame k leaves exactly the
\* first k frames and no return value.
C9_FramesInOrder ==
    /\ written = [i \in 1..Len(written) |-> MovName(i - 1)]
    /\ Len(written) = ai /\ ai <= 120
    /\ DOMAIN files = {written[i] : i \in 1..Len(written)}
    /\ LET scene == <<N, M, Len(fig.texts)>>
       IN  \A i \in 1..Len(written) :
              files[written[i]] =
                 [elev |-> 20, azim |-> 3 * (i - 1) - 270, artists |-> scene]
    /\ camera # << >> =>
          /\ camera[1] = 20 /\ camera[2] <= 87
          /\ pc \in {"export", "returned", "failed"}
          /\ Len(fig.markers) = N /\ Len(fig.lines) = M /\ fig.chrome
    /\ (pc = "returned" /\ args.save_fpath = PathDir) => camera = <<20, 87>>
    /\ (pc = "failed" /\ err = "IOError") =>
          /\ result = << >>
          /\ camera = <<20, 3 * ai - 270>>

C9_Witness ==
    /\ pc = "failed" /\ err = "IOError" /\ args.save_fpath = PathDir
    /\ ai = 7 /\ Len(written) = 7 /\ N = 2 /\ M = 1
    /\ <<"mov_", 0, 0, 6, ".png">> \in DOMAIN files
    /\ <<"mov_", 0, 0, 7, ".png">> \notin DOMAIN files

(* C10 *)

\* C10: no line segment and no edge label is ever drawn by a call one of
\* whose edges references an absent name, and when the lookup error ends the
\* call the figure already holds all N node markers and the labels of the
\* nodes whose flag is set.
C10_NodesDrawnNoEdges ==
    /\ (Drawing /\ HasAbsentName)
         => (fig.lines = << >> /\ TextsOf("edge") = << >>)
    /\ (pc = "failed" /\ err = "ValueError")
         => /\ HasAbsentName
            /\ Len(fig.markers) = N
            /\ Len(TextsOf("node")) = CountTrue(args.node_label_set, N)
            /\ fig.lines = << >> /\ TextsOf("edge") = << >>

C10_Witness ==
    /\ pc = "failed" /\ err = "ValueError"
    /\ N = 1 /\ M = 2
    /\ args.edges[1] = <<args.node_names[1], args.node_names[1]>>
    /\ args.edges[2][1] # args.node_names[1]
    /\ args.node_label_set = <<TRUE>>
    /\ Len(fig.markers) = 1 /\ Len(fig.texts) = 1 /\ fig.lines = << >>

====
